---- MODULE Spec2Model ----
(***************************************************************************)
(* A model of src/polluSensSerial.js: the serial session of a sensor whose *)
(* wire format (frame length, markers, checksum pair, field formulas) is   *)
(* given by a descriptor.  The classes PolluSensSerial and PolluSens share *)
(* connect, disconnect, sendCommandIfNeeded, readNext and startReadLoop    *)
(* line for line; the model follows PolluSensSerial and notes where        *)
(* PolluSens differs.                                                      *)
(*                                                                         *)
(* JavaScript runs every synchronous stretch of code to completion, so an  *)
(* action is one such stretch: from a call or the resumption of an await   *)
(* to the next await.  The inner while loop of the read loop is one        *)
(* synchronous stretch; it is modelled one iteration per step, and while   *)
(* it runs (scanning = TRUE) no other action is enabled.                   *)
(***************************************************************************)
EXTENDS Integers, Sequences, FiniteSets, TLC

\* ------------------------------------------------------------------ bounds
\* Bytes are 0..ByteMax (a scaled-down octet); arithmetic is modulo ByteMax+1.
ByteMax == 2
\* The source supplies at most MaxBytes bytes in all, in chunks of 1..MaxChunk.
MaxBytes == 4
MaxChunk == 2
\* The caller issues at most MaxReq readNext() calls.
MaxReq == 2
\* The periodic timer fires at most MaxTicks times.
MaxTicks == 2
\* The bytes the source supplies in the scheduler specification.
SchedBytes == 2
\* The garbage that precedes the back-to-back frames of LiveSpec.
MaxGarbage == 2
\* The bytes the source supplies in the lifecycle specification.
LifeBytes == 2
\* connect() is called at most MaxConnects times on a session.
MaxConnects == 2
\* A descriptor document holds at most MaxEntries raw entries.
MaxEntries == 2

Byte == 0..ByteMax
Mod == ByteMax + 1

VARIABLES
  config,         \* this.config: the resolved descriptor of the session
  onData,         \* this.onData is a function
  onError,        \* this.onError is a function
  port,           \* this.port: "null" or "port"
  portOpen,       \* the transport behind the port is opened
  reader,         \* this.reader is not null
  writer,         \* this.writer is not null
  buffer,         \* this.buffer
  commandInterval,\* this.commandInterval is not null (the timer is armed)
  readQueue,      \* this.readQueue: the resolve functions, by request id
  awaiting,       \* read loops suspended at `await this.reader.read()`
  scanning,       \* a read loop is inside its inner while loop
  connPc,         \* where connect() is
  discPc,         \* where disconnect() is
  sinkLocked,     \* port.writable is locked to a writer
  pendingWrites,  \* sendOnce calls suspended at `await this.writer.write(data)`
  nextReq,        \* the id the next readNext() call gets
  ticks,          \* timer ticks fired so far
  source,         \* what the byte source still supplies
  orphans,        \* read loops suspended at a read of an earlier reader
  load,           \* a loadConfig call: its document, position and results
  connects,       \* connect() calls made so far
  \* observable outputs and the record of what happened
  stream,         \* every byte the read loop pulled, in order
  consumed,       \* how many bytes of stream have left the buffer's front
  requests,       \* the ids of the readNext() calls, in call order
  events,         \* single-byte drops and candidate windows, in order
  resolved,       \* resolve(parsed) calls: [req, pos, parsed]
  dataOut,        \* onData(parsed) calls: [pos, parsed]
  consoleErr,     \* console.error(msg) calls
  onErrorCalls,   \* onError(msg) calls
  writeLog        \* writer.write(data) calls: [data, src, afterDisconnect]

prog == <<config, onData, onError, port, portOpen, reader, writer, buffer,
          commandInterval, readQueue, awaiting, scanning, connPc, discPc,
          sinkLocked, pendingWrites, nextReq, ticks, source, orphans, load,
          connects>>
hist == <<stream, consumed, requests, events, resolved, dataOut, consoleErr,
          onErrorCalls, writeLog>>
vars == <<prog, hist>>

\* ----------------------------------------------------------------- helpers
Take(s, n) == SubSeq(s, 1, n)
Drop(s, n) == SubSeq(s, n + 1, Len(s))
Last(s) == s[Len(s)]

\* ------------------------------------------------------- descriptor values
\* A marker value as authored: a number, or a string "0x.." (hex) whose
\* numeric value is n.
Num(n) == [t |-> "num", n |-> n]
Hex(n) == [t |-> "hex", n |-> n]
\* frame.startByte / frame.endByte: "none", one value, or an array of values.
NoMarker == [form |-> "none", v |-> <<>>]
OneByte(x) == [form |-> "byte", v |-> <<x>>]
ByteSeq(xs) == [form |-> "seq", v |-> xs]

\* Formulas over the window `data` (0-based index i, as in the descriptor):
\*   byte : data[i]
\*   sum  : (data[i] + data[j]) % Mod
\*   const: the literal i
\*   tbl  : a lookup [..j entries..][data[i]].valueOf(), a TypeError when
\*          data[i] >= j
\* Any other formula is malformed: a SyntaxError whenever it is evaluated.
FByte(i) == [op |-> "byte", i |-> i, j |-> 0]
FSum(i, j) == [op |-> "sum", i |-> i, j |-> j]
FConst(c) == [op |-> "const", i |-> c, j |-> 0]
FTbl(i, n) == [op |-> "tbl", i |-> i, j |-> n]

\* ------------------------------------------------------------ pure helpers
ParseByteValue(v) == IF v.t = "hex" THEN Num(v.n) ELSE v

ParseByteField(field) ==
  IF field.form = "none" THEN field
  ELSE [form |-> field.form,
        v |-> [i \in 1..Len(field.v) |-> ParseByteValue(field.v[i])]]

\* slice[i] === v, for 0-based i; an index outside the slice reads undefined.
StrictEq(slice, i, v) ==
  /\ i >= 0
  /\ i < Len(slice)
  /\ v.t = "num"
  /\ slice[i + 1] = v.n

MatchesStart(frame, slice) ==
  LET useStart == frame.startByte.form # "none"
      startByte == ParseByteField(frame.startByte)
  IN  IF startByte.form = "seq"
        THEN \A i \in 0..(Len(startByte.v) - 1) :
               StrictEq(slice, i, startByte.v[i + 1])
        ELSE ~useStart \/ StrictEq(slice, 0, startByte.v[1])

\* MatchesEnd with its indices one too low.
MatchesEndOffByOne(frame, slice) ==
  LET useEnd == frame.endByte.form # "none"
      endByte == ParseByteField(frame.endByte)
      frameLength == frame.length
  IN  ~useEnd \/
      (IF endByte.form = "seq"
         THEN \A i \in 0..(Len(endByte.v) - 1) :
                StrictEq(slice, frameLength - Len(endByte.v) + i - 1,
                         endByte.v[i + 1])
         ELSE StrictEq(slice, frameLength - 2, endByte.v[1]))

MatchesEnd(frame, slice) ==
  LET useEnd == frame.endByte.form # "none"
      endByte == ParseByteField(frame.endByte)
      frameLength == frame.length
  IN  ~useEnd \/
      (IF endByte.form = "seq"
         THEN \A i \in 0..(Len(endByte.v) - 1) :
                StrictEq(slice, frameLength - Len(endByte.v) + i, endByte.v[i + 1])
         ELSE StrictEq(slice, frameLength - 1, endByte.v[1]))

\* evalSafe(expr, {data}): [ok |-> FALSE] stands for a thrown exception.
EvalSafe(expr, data) ==
  CASE expr.op = "byte"  -> [ok |-> TRUE, val |-> data[expr.i + 1]]
    [] expr.op = "sum"   -> [ok |-> TRUE,
                             val |-> (data[expr.i + 1] + data[expr.j + 1]) % Mod]
    [] expr.op = "const" -> [ok |-> TRUE, val |-> expr.i]
    [] expr.op = "tbl"   -> IF data[expr.i + 1] < expr.j
                              THEN [ok |-> TRUE, val |-> data[expr.i + 1]]
                              ELSE [ok |-> FALSE, val |-> 0]
    [] OTHER             -> [ok |-> FALSE, val |-> 0]

\* The formula of a data field: `typeof meta === 'object' ? meta.value : meta`.
FieldExpr(meta) == IF "value" \in DOMAIN meta THEN meta.value ELSE meta

\* The for loop of handleFrame over Object.entries(dataFields): the parsed
\* mapping as a sequence of <<name, value>> in declaration order, or a thrown
\* exception at the first formula that faults.
RECURSIVE Extract(_, _, _)
Extract(fields, data, acc) ==
  IF fields = <<>> THEN [ok |-> TRUE, parsed |-> acc]
  ELSE LET r == EvalSafe(FieldExpr(Head(fields).meta), data)
       IN  IF r.ok
             THEN Extract(Tail(fields), data,
                          Append(acc, <<Head(fields).name, r.val>>))
             ELSE [ok |-> FALSE, parsed |-> <<>>]

\* The `valid` of handleFrame; evalSafe(checksum.eval) runs first, and an
\* exception from either formula leaves handleFrame at once.
Validate(checksum, data) ==
  LET e == EvalSafe(checksum.eval, data)
      c == EvalSafe(checksum.compare, data)
  IN  IF ~e.ok \/ ~c.ok THEN "throws"
      ELSE IF e.val = c.val THEN "valid" ELSE "invalid"

\* handleFrame(data), without its effects on the queue and the callback:
\*   valid   : returned true with the parsed mapping
\*   invalid : returned false
\*   ckfault : threw while evaluating the checksum pair
\*   exfault : passed the checksum and threw while evaluating a field
HandleFrame(cfg, data) ==
  LET v == Validate(cfg.checksum, data)
      x == Extract(cfg.data, data, <<>>)
  IN  CASE v = "throws"  -> [kind |-> "ckfault", parsed |-> <<>>]
        [] v = "invalid" -> [kind |-> "invalid", parsed |-> <<>>]
        [] OTHER -> IF x.ok THEN [kind |-> "valid", parsed |-> x.parsed]
                            ELSE [kind |-> "exfault", parsed |-> <<>>]

\* One iteration of `while (this.buffer.length >= frameLength)`: what becomes
\* of the leading window.
ScanOutcome(cfg, buf) ==
  LET slice == Take(buf, cfg.frame.length)
  IN  IF MatchesStart(cfg.frame, slice) /\ MatchesEnd(cfg.frame, slice)
        THEN HandleFrame(cfg, slice)
        ELSE [kind |-> "drop", parsed |-> <<>>]

\* BufferAfter shifting a single byte after a checksum failure as well.
BufferAfterShiftOnInvalid(cfg, buf, o) ==
  IF o.kind \in {"drop", "invalid"} THEN Tail(buf) ELSE Drop(buf, cfg.frame.length)

\* The buffer after the iteration: the window is sliced off before
\* handleFrame runs, a failed marker check shifts one byte.
BufferAfter(cfg, buf, o) ==
  IF o.kind = "drop" THEN Tail(buf) ELSE Drop(buf, cfg.frame.length)

Faulted(o) == o.kind \in {"ckfault", "exfault"}

\* handleError(msg) as seen by the two sinks of a message.
ErrorsOf(o) ==
  CASE o.kind = "invalid" -> <<"Checksum failed">>
    [] Faulted(o)         -> <<"Read loop error">>
    [] OTHER              -> <<>>

\* ------------------------------------------------------- the command string
\* A string is a sequence of one-character strings.
HexChars == <<"0", "1", "2", "3", "4", "5", "6", "7", "8", "9",
              "a", "b", "c", "d", "e", "f">>
UpperChars == <<"A", "B", "C", "D", "E", "F", "N", "O">>
LowerChars == <<"a", "b", "c", "d", "e", "f", "n", "o">>

LowerChar(c) ==
  IF \E i \in 1..Len(UpperChars) : UpperChars[i] = c
    THEN LowerChars[CHOOSE i \in 1..Len(UpperChars) : UpperChars[i] = c]
    ELSE c

\* String.prototype.toLowerCase
ToLowerCase(str) == [i \in 1..Len(str) |-> LowerChar(str[i])]

\* cmd.split(/\s+/): a run of white space separates two tokens; white space
\* at either end leaves an empty token there.
RECURSIVE SplitWs(_, _, _, _)
SplitWs(str, cur, acc, inGap) ==
  IF str = <<>> THEN Append(acc, cur)
  ELSE IF Head(str) = " "
    THEN IF inGap THEN SplitWs(Tail(str), cur, acc, TRUE)
                  ELSE SplitWs(Tail(str), <<>>, Append(acc, cur), TRUE)
    ELSE SplitWs(Tail(str), Append(cur, Head(str)), acc, FALSE)

IsHexChar(c) == \E i \in 1..Len(HexChars) : HexChars[i] = LowerChar(c)
HexDigit(c) == (CHOOSE i \in 1..Len(HexChars) : HexChars[i] = LowerChar(c)) - 1

\* parseInt(tok, 16): the leading hex digits; -1 stands for NaN.
RECURSIVE ParseInt16(_, _)
ParseInt16(tok, acc) ==
  IF tok = <<>> \/ ~IsHexChar(Head(tok)) THEN acc
  ELSE ParseInt16(Tail(tok), (IF acc < 0 THEN 0 ELSE acc * 16) + HexDigit(Head(tok)))

\* new Uint8Array(cmd.split(/\s+/).map(hex => parseInt(hex, 16))): NaN is
\* stored as 0, any other number modulo 256.
CommandBytes(str) ==
  LET toks == SplitWs(str, <<>>, <<>>, FALSE)
  IN  [i \in 1..Len(toks) |->
         LET n == ParseInt16(toks[i], -1) IN IF n < 0 THEN 0 ELSE n % 256]

\* config.command as authored: absent, or a string.
NoCommand == [present |-> FALSE, str |-> <<>>]
Command(str) == [present |-> TRUE, str |-> str]
\* config.send_cmd_period as authored: absent, or a number of seconds.
NoPeriod == [t |-> "absent", n |-> 0]
Period(n) == [t |-> "num", n |-> n]

\* `!cmd || cmd.toLowerCase() === "none"`
CommandDisabled(cmd) ==
  \/ ~cmd.present
  \/ cmd.str = <<>>
  \/ ToLowerCase(cmd.str) = <<"n", "o", "n", "e">>

\* `typeof period === "number" && period > 0`
PeriodEnabled(period) == period.t = "num" /\ period.n > 0

\* -------------------------------------------------------------- descriptors
Field(name, meta) == [name |-> name, meta |-> meta]
Wrapped(expr) == [value |-> expr]
Frame(len, start, end) == [length |-> len, startByte |-> start, endByte |-> end]
Checksum(eval, compare) == [eval |-> eval, compare |-> compare]
Descriptor(frame, checksum, data, command, period) ==
  [frame |-> frame, checksum |-> checksum, data |-> data,
   command |-> command, send_cmd_period |-> period]

Temp == <<Field("temp", FByte(1))>>
\* data[1] === (data[0] + data[0]) % Mod
DoubleCheck == Checksum(FByte(1), FSum(0, 0))

\* The descriptors of the read-loop specification: no command.
LoopDescriptors ==
  { \* start byte 1, no end marker
    Descriptor(Frame(2, OneByte(Num(1)), NoMarker), DoubleCheck, Temp,
               NoCommand, NoPeriod),
    \* no start marker, end byte "0x2", a constant checksum pair
    Descriptor(Frame(3, NoMarker, OneByte(Hex(2))),
               Checksum(FConst(1), FConst(1)),
               <<Field("temp", Wrapped(FByte(1)))>>, NoCommand, NoPeriod),
    \* start sequence 1 "0x2", end sequence 0
    Descriptor(Frame(3, ByteSeq(<<Num(1), Hex(2)>>), ByteSeq(<<Num(0)>>)),
               Checksum(FByte(2), FSum(0, 1)), Temp, NoCommand, NoPeriod),
    \* no markers at all
    Descriptor(Frame(2, NoMarker, NoMarker), DoubleCheck, Temp,
               NoCommand, NoPeriod),
    \* a checksum formula that faults on some windows
    Descriptor(Frame(2, OneByte(Num(1)), NoMarker),
               Checksum(FByte(1), FTbl(1, 2)), Temp, NoCommand, NoPeriod),
    \* a field formula that faults on some windows
    Descriptor(Frame(2, OneByte(Num(1)), NoMarker),
               Checksum(FConst(1), FConst(1)),
               <<Field("temp", FByte(1)), Field("hum", Wrapped(FTbl(1, 2)))>>,
               NoCommand, NoPeriod) }

PlainFrame == Frame(2, OneByte(Num(1)), NoMarker)
PlainCheck == Checksum(FByte(1), FByte(1))
PlainData == <<Field("v", FByte(1))>>
\* The descriptors of the scheduler specification.
SchedDescriptors ==
  { Descriptor(PlainFrame, PlainCheck, PlainData, c[1], c[2]) : c \in
      { <<Command(<<"0", "1", " ", "A", "3">>), Period(2)>>,
        <<Command(<<"0", "1", " ", "A", "3">>), Period(0)>>,
        <<Command(<<"f", "f">>), NoPeriod>>,
        <<Command(<<"n", "o", "n", "e">>), Period(2)>>,
        <<Command(<<"N", "o", "N", "E">>), Period(2)>>,
        <<NoCommand, Period(2)>> } }

\* --------------------------------------------------------------- loadConfig
\* A raw entry of the document. name and inherits_from are "" when absent
\* (or falsy); command and send_cmd_period are NoCommand and NoPeriod when
\* absent; port, frame, checksum and data are the keys the entry declares
\* (none when the sub-object is absent, which the merge reads as {}).
RawSensor(name, inherits_from, command, period, portObj, frame, checksum, data) ==
  [name |-> name, inherits_from |-> inherits_from, command |-> command,
   send_cmd_period |-> period, port |-> portObj, frame |-> frame,
   checksum |-> checksum, data |-> data]

\* nameMap: `rawSensors.forEach(s => { if (s.name) nameMap[s.name] = s; })`.
NameMap(rawSensors) ==
  [n \in {rawSensors[i].name : i \in 1..Len(rawSensors)} \ {""} |->
     rawSensors[CHOOSE i \in 1..Len(rawSensors) :
                  /\ rawSensors[i].name = n
                  /\ \A j \in (i + 1)..Len(rawSensors) : rawSensors[j].name # n]]

\* `a ?? b`: b when a is null or undefined.
Coalesce(a, b) == IF a \in {NoCommand, NoPeriod} THEN b ELSE a

\* `{ ...base, ...own }`
SpreadMerge(base, own) ==
  [k \in DOMAIN base \cup DOMAIN own |->
     IF k \in DOMAIN own THEN own[k] ELSE base[k]]

\* The stack argument of resolveInheritance: a number or an array of names.
NumStack(n) == [t |-> "num", v |-> <<>>, n |-> n]
ArrStack(v) == [t |-> "arr", v |-> v, n |-> 0]

Null == [kind |-> "null"]
Value(val, warn) == [kind |-> "value", val |-> val, warn |-> warn]
Throws(msg) == [kind |-> "throws", msg |-> msg]

\* resolveInheritance(sensor, stack): null, a descriptor with the warnings
\* printed on the way, or an exception. `stack.includes` is not a function
\* when stack is a number.
RECURSIVE ResolveInheritance(_, _, _)
ResolveInheritance(nameMap, sensor, stack) ==
  IF sensor.name = "" THEN Null
  ELSE IF sensor.inherits_from = "" THEN Value(sensor, <<>>)
  ELSE IF stack.t # "arr" THEN Throws("TypeError")
  ELSE IF \E k \in 1..Len(stack.v) : stack.v[k] = sensor.name
    THEN Value(sensor, <<"Circular inheritance">>)
  ELSE IF sensor.inherits_from \notin DOMAIN nameMap
    THEN Value(sensor, <<"Base sensor not found">>)
  ELSE
    LET base == nameMap[sensor.inherits_from]
        r == ResolveInheritance(nameMap, base,
                                ArrStack(Append(stack.v, sensor.name)))
        resolvedBase == r.val
    IN  IF r.kind = "throws" THEN r
        ELSE Value(
          [name |-> sensor.name,
           inherits_from |-> "",
           command |-> Coalesce(sensor.command, resolvedBase.command),
           send_cmd_period |-> Coalesce(sensor.send_cmd_period,
                                        resolvedBase.send_cmd_period),
           port |-> SpreadMerge(resolvedBase.port, sensor.port),
           frame |-> SpreadMerge(resolvedBase.frame, sensor.frame),
           checksum |-> SpreadMerge(resolvedBase.checksum, sensor.checksum),
           data |-> SpreadMerge(resolvedBase.data, sensor.data)],
          r.warn)

\* ------------------------------------------------------------------- Init
\* The state after `new PolluSensSerial(config)`; the caller may have set
\* onData and onError before connecting.
SessionInit(descriptors, src) ==
  /\ config \in descriptors
  /\ onData \in BOOLEAN
  /\ onError = onData
  /\ port = "null"
  /\ portOpen = FALSE
  /\ reader = FALSE
  /\ writer = FALSE
  /\ buffer = <<>>
  /\ commandInterval = FALSE
  /\ readQueue = <<>>
  /\ awaiting = 0
  /\ scanning = FALSE
  /\ connPc = "idle"
  /\ discPc = "idle"
  /\ sinkLocked = FALSE
  /\ pendingWrites = <<>>
  /\ nextReq = 1
  /\ ticks = 0
  /\ source = src
  /\ orphans = 0
  /\ connects = 0
  /\ stream = <<>>
  /\ consumed = 0
  /\ requests = <<>>
  /\ events = <<>>
  /\ resolved = <<>>
  /\ dataOut = <<>>
  /\ consoleErr = <<>>
  /\ onErrorCalls = <<>>
  /\ writeLog = <<>>

\* No loadConfig call is modelled.
NoLoad == [pc |-> "none"]

InitWith(descriptors, src) == SessionInit(descriptors, src) /\ load = NoLoad

Init == InitWith(LoopDescriptors, [mode |-> "any", left |-> MaxBytes])

\* ------------------------------------------------------------ handleError
\* handleError(msg) for each msg of msgs: console.error, then this.onError
\* when it is a function.
Report(msgs) ==
  /\ consoleErr' = consoleErr \o msgs
  /\ onErrorCalls' = IF onError THEN onErrorCalls \o msgs ELSE onErrorCalls

\* ---------------------------------------------------------------- readNext
\* readNext(): push the promise's resolve function on the queue.
ReadNext ==
  /\ ~scanning
  /\ nextReq <= MaxReq
  /\ readQueue' = Append(readQueue, nextReq)
  /\ nextReq' = nextReq + 1
  /\ requests' = Append(requests, nextReq)
  /\ UNCHANGED <<config, onData, onError, port, portOpen, reader, writer,
                 buffer, commandInterval, awaiting, scanning, connPc, discPc,
                 sinkLocked, pendingWrites, ticks, source,
                 orphans, load, connects>>
  /\ UNCHANGED <<stream, consumed, events, resolved, dataOut, consoleErr,
                 onErrorCalls, writeLog>>

\* ---------------------------------------------------------------- the loop
\* `const { value, done } = await this.reader.read()` resumes with a chunk:
\* the chunk is pushed on the buffer; the inner loop is entered when the
\* buffer holds a window, else the loop reads again.
ReadChunk(chunk) ==
  /\ ~scanning
  /\ awaiting > 0
  /\ buffer' = buffer \o chunk
  /\ IF Len(buffer') >= config.frame.length
       THEN scanning' = TRUE /\ awaiting' = awaiting - 1
       ELSE UNCHANGED <<scanning, awaiting>>
  /\ UNCHANGED <<config, onData, onError, port, portOpen, reader, writer,
                 commandInterval, readQueue, connPc, discPc, sinkLocked,
                 pendingWrites, nextReq, ticks, orphans, load, connects>>

\* What `await this.reader.read()` does when a loop task calls it: a
\* TypeError when this.reader is null; done = true at once when disconnect()
\* has cancelled this reader; else the read is pending.
ReadOutcome ==
  IF ~reader THEN "throws"
  ELSE IF discPc = "cancelling" THEN "done"
  ELSE "pending"

\* What the iteration does to the program state, given its outcome o: the
\* buffer moves on; a valid frame resolves the oldest request; an exception
\* leaves the while loops for the catch, which ends the loop task; else the
\* inner loop goes on while a window is left, and then the task reads again
\* (`this.reader.read()` throws a TypeError when this.reader is null).
ScanProg(o) ==
  LET after == BufferAfter(config, buffer, o)
  IN  /\ buffer' = after
      /\ readQueue' = IF o.kind = "valid" /\ readQueue # <<>>
                        THEN Tail(readQueue) ELSE readQueue
      /\ IF Faulted(o)
           THEN scanning' = FALSE /\ awaiting' = awaiting
           ELSE IF Len(after) >= config.frame.length
             THEN UNCHANGED <<scanning, awaiting>>
             ELSE /\ scanning' = FALSE
                  /\ awaiting' = IF ReadOutcome = "pending"
                                   THEN awaiting + 1 ELSE awaiting
      /\ UNCHANGED <<config, onData, onError, port, portOpen, reader, writer,
                     commandInterval, connPc, discPc, sinkLocked,
                     pendingWrites, nextReq, ticks, source,
                 orphans, load, connects>>

\* The messages the iteration hands to handleError.
ScanErrors(o) ==
  ErrorsOf(o) \o
  (IF ~Faulted(o) /\ ReadOutcome = "throws"
      /\ Len(BufferAfter(config, buffer, o)) < config.frame.length
     THEN <<"Read loop error">> ELSE <<>>)

\* The calls the iteration makes on the subscribers, and its record.
ScanHist(o) ==
  LET slice == Take(buffer, config.frame.length)
      req == IF o.kind = "valid" /\ readQueue # <<>> THEN Head(readQueue) ELSE 0
  IN  /\ consumed' = consumed + (Len(buffer) - Len(BufferAfter(config, buffer, o)))
      /\ events' = Append(events, [kind |-> o.kind, pos |-> consumed,
                                   win |-> slice, req |-> req])
      /\ resolved' = IF req # 0
                       THEN Append(resolved, [req |-> req, pos |-> consumed,
                                              parsed |-> o.parsed])
                       ELSE resolved
      /\ dataOut' = IF o.kind = "valid" /\ onData
                      THEN Append(dataOut, [pos |-> consumed, parsed |-> o.parsed])
                      ELSE dataOut
      /\ Report(ScanErrors(o))
      /\ UNCHANGED <<stream, requests, writeLog>>

\* One iteration of the inner while loop.
ScanStep ==
  /\ scanning
  /\ LET o == ScanOutcome(config, buffer)
     IN  ScanProg(o) /\ ScanHist(o)

\* The source hands the pending read a chunk of 1..MaxChunk bytes.
SourceChunk ==
  /\ source.mode = "any"
  /\ \E n \in 1..MaxChunk :
       /\ n <= source.left
       /\ \E chunk \in [1..n -> Byte] :
            /\ ReadChunk(chunk)
            /\ source' = [source EXCEPT !.left = @ - n]
            /\ stream' = stream \o chunk
  /\ UNCHANGED <<consumed, requests, events, resolved, dataOut, consoleErr,
                 onErrorCalls, writeLog>>

\* A read of an earlier reader (its port was never closed) resolves with a
\* chunk: the loop pushes it on this.buffer, enters the inner loop when the
\* buffer holds a window, and else reads again, now from this.reader.
OrphanChunk ==
  /\ ~scanning
  /\ orphans > 0
  /\ source.mode = "any"
  /\ \E n \in 1..MaxChunk :
       /\ n <= source.left
       /\ \E chunk \in [1..n -> Byte] :
            /\ buffer' = buffer \o chunk
            /\ source' = [source EXCEPT !.left = @ - n]
            /\ stream' = stream \o chunk
  /\ orphans' = orphans - 1
  /\ IF Len(buffer') >= config.frame.length
       THEN scanning' = TRUE /\ UNCHANGED awaiting /\ Report(<<>>)
       ELSE /\ UNCHANGED scanning
            /\ awaiting' = IF ReadOutcome = "pending"
                             THEN awaiting + 1 ELSE awaiting
            /\ Report(IF ReadOutcome = "throws"
                        THEN <<"Read loop error">> ELSE <<>>)
  /\ UNCHANGED <<config, onData, onError, port, portOpen, reader, writer,
                 commandInterval, readQueue, connPc, discPc, sinkLocked,
                 pendingWrites, nextReq, ticks, load, connects>>
  /\ UNCHANGED <<consumed, requests, events, resolved, dataOut, writeLog>>

\* A catch that swallows the exception.
SourceFaultSwallowed ==
  /\ ~scanning
  /\ awaiting > 0
  /\ source.mode = "any"
  /\ source' = [source EXCEPT !.mode = "faulted"]
  /\ awaiting' = awaiting - 1
  /\ UNCHANGED <<config, onData, onError, port, portOpen, reader, writer,
                 buffer, commandInterval, readQueue, scanning, connPc, discPc,
                 sinkLocked, pendingWrites, nextReq, ticks,
                 orphans, load, connects>>
  /\ UNCHANGED hist

\* The pending read rejects (a transport fault; the stream is errored and
\* supplies nothing more): the catch reports it and the loop task ends.
SourceFault ==
  /\ ~scanning
  /\ awaiting > 0
  /\ source.mode = "any"
  /\ source' = [source EXCEPT !.mode = "faulted"]
  /\ awaiting' = awaiting - 1
  /\ Report(<<"Read loop error">>)
  /\ UNCHANGED <<config, onData, onError, port, portOpen, reader, writer,
                 buffer, commandInterval, readQueue, scanning, connPc, discPc,
                 sinkLocked, pendingWrites, nextReq, ticks,
                 orphans, load, connects>>
  /\ UNCHANGED <<stream, consumed, requests, events, resolved, dataOut, writeLog>>

\* The pending read resolves with done = true (the stream has ended):
\* `if (done) break`, and the loop task ends.
SourceEnd ==
  /\ ~scanning
  /\ awaiting > 0
  /\ source.mode = "any"
  /\ source' = [source EXCEPT !.mode = "ended"]
  /\ awaiting' = awaiting - 1
  /\ UNCHANGED <<config, onData, onError, port, portOpen, reader, writer,
                 buffer, commandInterval, readQueue, scanning, connPc, discPc,
                 sinkLocked, pendingWrites, nextReq, ticks,
                 orphans, load, connects>>
  /\ UNCHANGED hist

\* ------------------------------------------------------------ the scheduler
\* `this.port.writable.getWriter()` returns a writer: the port is set and
\* opened (else this.port or port.writable is null, a TypeError) and the
\* stream is not locked (else getWriter throws a TypeError).
GetWriterSucceeds(p, open, locked) == p # "null" /\ open /\ ~locked

\* sendOnce that does not await its write: the lock is gone at once.
ReleasedWithoutAwait == FALSE

\* sendOnce holds the writer's lock from getWriter() until the awaited write
\* has settled.
LockedWhileWriting == TRUE

\* sendOnce up to its await: either the write is in flight, or the catch has
\* run (`this.writer = null`, handleError).
SendOnceBegin(src, gotWriter) ==
  IF gotWriter
    THEN /\ writer' = TRUE
         /\ sinkLocked' = LockedWhileWriting
         /\ pendingWrites' = Append(pendingWrites, src)
         /\ writeLog' = Append(writeLog,
                               [data |-> CommandBytes(config.command.str),
                                src |-> src, after |-> discPc # "idle"])
         /\ Report(<<>>)
    ELSE /\ writer' = FALSE
         /\ Report(<<"Error sending command">>)
         /\ UNCHANGED <<sinkLocked, pendingWrites, writeLog>>

\* A catch that gives up: clearInterval(this.commandInterval).
TimerClearedOnSendError(armed) == FALSE

\* The catch of sendOnce clears nothing but this.writer: the timer stays.
TimerAfterSendError(armed) == armed

\* `if (typeof period === "number" && period > 0) this.commandInterval =
\* setInterval(sendOnce, period * 1000)`, after `await sendOnce()`.
ArmTimer ==
  commandInterval' = IF PeriodEnabled(config.send_cmd_period)
                       THEN TRUE ELSE commandInterval

\* sendOnce after its await. The write resolved: `this.writer.releaseLock()`
\* releases the stream, or throws into the catch when a later sendOnce has
\* set this.writer to null. The write rejected: the catch runs and nothing
\* releases the lock.
SendOnceEnd(ok) ==
  IF ok /\ writer
    THEN /\ sinkLocked' = FALSE
         /\ Report(<<>>)
         /\ UNCHANGED writer
    ELSE /\ writer' = FALSE
         /\ Report(<<"Error sending command">>)
         /\ UNCHANGED sinkLocked

\* The write in flight settles; when it is connect's own sendOnce, the rest
\* of sendCommandIfNeeded and of connect runs.
WriteSettles(ok) ==
  /\ ~scanning
  /\ pendingWrites # <<>>
  /\ SendOnceEnd(ok)
  /\ pendingWrites' = Tail(pendingWrites)
  /\ IF Head(pendingWrites) = "init"
       THEN ArmTimer /\ connPc' = "done"
       ELSE /\ commandInterval' = (IF ok /\ writer THEN commandInterval
                                   ELSE TimerAfterSendError(commandInterval))
            /\ UNCHANGED connPc
  /\ UNCHANGED <<config, onData, onError, port, portOpen, reader, buffer,
                 readQueue, awaiting, scanning, discPc, nextReq, ticks, source,
                 orphans, load, connects>>
  /\ UNCHANGED <<stream, consumed, requests, events, resolved, dataOut, writeLog>>

WriteDone == WriteSettles(TRUE)
WriteFail == WriteSettles(FALSE)

\* The timer fires: sendOnce runs up to its await.
Tick ==
  /\ ~scanning
  /\ commandInterval
  /\ ticks < MaxTicks
  /\ ticks' = ticks + 1
  /\ LET gotWriter == GetWriterSucceeds(port, portOpen, sinkLocked)
     IN  /\ SendOnceBegin("tick", gotWriter)
         /\ commandInterval' = (IF gotWriter THEN commandInterval
                                ELSE TimerAfterSendError(commandInterval))
  /\ UNCHANGED <<config, onData, onError, port, portOpen, reader, buffer,
                 readQueue, awaiting, scanning, connPc, discPc, nextReq, source,
                 orphans, load, connects>>
  /\ UNCHANGED <<stream, consumed, requests, events, resolved, dataOut>>

\* ------------------------------------------------------------------ connect
\* connect() is called: `await navigator.serial.requestPort()`.
ConnectFrom(pcs) ==
  /\ ~scanning
  /\ connPc \in pcs
  /\ connects < MaxConnects
  /\ connects' = connects + 1
  /\ connPc' = "requesting"
  /\ UNCHANGED <<config, onData, onError, port, portOpen, reader, writer,
                 buffer, commandInterval, readQueue, awaiting, scanning, discPc,
                 sinkLocked, pendingWrites, nextReq, ticks, source,
                 orphans, load>>
  /\ UNCHANGED hist

\* The first connect() call on the session.
ConnectCall == ConnectFrom({"idle"})

\* A further connect() call, made when the one before it has settled.
ConnectAgain == ConnectFrom({"done", "failed"})

\* requestPort resolved with the port this.port already is or, when this.port
\* is null, with a closed port: `this.port = ...; await this.port.open(...)`.
ConnectPort ==
  /\ ~scanning
  /\ connPc = "requesting"
  /\ port' = "port"
  /\ connPc' = "opening"
  /\ UNCHANGED <<config, onData, onError, portOpen, reader, writer, buffer,
                 commandInterval, readQueue, awaiting, scanning, discPc,
                 sinkLocked, pendingWrites, nextReq, ticks, source,
                 orphans, load, connects>>
  /\ UNCHANGED hist

\* requestPort resolved with a closed port other than the opened port
\* this.port is: the old port stays open, and this.reader still reads it.
ConnectOtherPort ==
  /\ ~scanning
  /\ connPc = "requesting"
  /\ port # "null"
  /\ portOpen
  /\ ~sinkLocked
  /\ portOpen' = FALSE
  /\ connPc' = "opening"
  /\ UNCHANGED <<config, onData, onError, port, reader, writer, buffer,
                 commandInterval, readQueue, awaiting, scanning, discPc,
                 sinkLocked, pendingWrites, nextReq, ticks, source,
                 orphans, load, connects>>
  /\ UNCHANGED hist

\* requestPort or open rejected: connect() throws.
ConnectFail ==
  /\ ~scanning
  /\ connPc \in {"requesting", "opening"}
  /\ connPc' = "failed"
  /\ UNCHANGED <<config, onData, onError, port, portOpen, reader, writer,
                 buffer, commandInterval, readQueue, awaiting, scanning, discPc,
                 sinkLocked, pendingWrites, nextReq, ticks, source,
                 orphans, load, connects>>
  /\ UNCHANGED hist

\* open resolved (it does for a closed port only): getReader, startReadLoop
\* (the loop task runs up to its first read), then sendCommandIfNeeded up to
\* the await of sendOnce, and, when sendOnce did not get to its write, on to
\* the end of connect. this.reader is a new reader: a loop still suspended
\* at a read of the reader it replaces stays suspended there.
ConnectOpen ==
  /\ ~scanning
  /\ connPc = "opening"
  /\ ~portOpen
  /\ discPc # "closing"
  /\ portOpen' = TRUE
  /\ reader' = TRUE
  /\ awaiting' = 1
  /\ orphans' = orphans + awaiting
  /\ discPc' = IF discPc = "cancelling" THEN "cancellingOld" ELSE discPc
  /\ IF CommandDisabled(config.command)
       THEN /\ connPc' = "done"
            /\ UNCHANGED <<writer, sinkLocked, pendingWrites, commandInterval>>
            /\ UNCHANGED <<consoleErr, onErrorCalls, writeLog>>
       ELSE LET gotWriter == GetWriterSucceeds(port, TRUE, sinkLocked)
            IN  /\ SendOnceBegin("init", gotWriter)
                /\ IF gotWriter
                     THEN connPc' = "sending" /\ UNCHANGED commandInterval
                     ELSE connPc' = "done" /\ ArmTimer
  /\ UNCHANGED <<config, onData, onError, port, buffer, readQueue, scanning,
                 nextReq, ticks, source, load, connects>>
  /\ UNCHANGED <<stream, consumed, requests, events, resolved, dataOut>>

\* --------------------------------------------------------------- disconnect
\* `await this.port.close()` is called on a port that is set. The call
\* decides the outcome: close() is accepted for an opened port whose
\* writable stream is unlocked (the port then is no longer opened), and is
\* rejected otherwise (InvalidStateError for a port that is not opened,
\* TypeError for a locked stream).
CloseCall ==
  IF portOpen /\ ~sinkLocked
    THEN discPc' = "closing" /\ portOpen' = FALSE
    ELSE discPc' = "rejecting" /\ UNCHANGED portOpen

\* disconnect() is called: the timer is cleared; then `await
\* this.reader.cancel()`, which resolves every pending read with done = true
\* (each loop task takes `if (done) break` and ends); with no reader, on to
\* `await this.port.close()`; with no port either, disconnect is over.
DisconnectFrom(pcs) ==
  /\ ~scanning
  /\ discPc \in pcs
  /\ commandInterval' = FALSE
  /\ IF reader
       THEN discPc' = "cancelling" /\ awaiting' = 0 /\ UNCHANGED portOpen
       ELSE /\ IF port # "null" THEN CloseCall
                                ELSE discPc' = "done" /\ UNCHANGED portOpen
            /\ UNCHANGED awaiting
  /\ UNCHANGED <<config, onData, onError, port, reader, writer,
                 buffer, readQueue, scanning, connPc, sinkLocked,
                 pendingWrites, nextReq, ticks, source,
                 orphans, load, connects>>
  /\ UNCHANGED hist

\* The first disconnect() call on the session.
DisconnectCall == DisconnectFrom({"idle"})

\* A further disconnect() call, made when the one before it has settled.
DisconnectAgain == DisconnectFrom({"done", "failed"})

\* cancel settled: `this.reader.releaseLock()` (any exception is swallowed),
\* `this.reader = null`, then `await this.port.close()` when a port is set.
\* When connect() has replaced this.reader meanwhile ("cancellingOld"), the
\* lock released is the new reader's: its pending reads reject with a
\* TypeError, and every loop suspended there reports it and ends.
DisconnectCancelled ==
  /\ ~scanning
  /\ discPc \in {"cancelling", "cancellingOld"}
  /\ reader' = FALSE
  /\ awaiting' = 0
  /\ Report([i \in 1..awaiting |-> "Read loop error"])
  /\ IF port # "null" THEN CloseCall
                      ELSE discPc' = "done" /\ UNCHANGED portOpen
  /\ UNCHANGED <<config, onData, onError, port, writer, buffer,
                 commandInterval, readQueue, scanning, connPc,
                 sinkLocked, pendingWrites, nextReq, ticks, source,
                 orphans, load, connects>>
  /\ UNCHANGED <<stream, consumed, requests, events, resolved, dataOut,
                 writeLog>>

\* close settled. Accepted: `this.port = null`. Rejected: disconnect()
\* throws and leaves this.port as it is.
DisconnectClosed ==
  /\ ~scanning
  /\ discPc \in {"closing", "rejecting"}
  /\ IF discPc = "closing"
       THEN port' = "null" /\ discPc' = "done"
       ELSE discPc' = "failed" /\ UNCHANGED port
  /\ UNCHANGED <<config, onData, onError, portOpen, reader, writer, buffer,
                 commandInterval, readQueue, awaiting, scanning, connPc,
                 sinkLocked, pendingWrites, nextReq, ticks, source,
                 orphans, load, connects>>
  /\ UNCHANGED hist

\* ----------------------------------------------------------- specifications
\* The session and its read loop, for the descriptors without a command.
Next ==
  \/ ConnectCall
  \/ ConnectPort
  \/ ConnectFail
  \/ ConnectOpen
  \/ SourceChunk
  \/ ScanStep
  \/ SourceFault
  \/ SourceEnd
  \/ ReadNext
  \/ DisconnectCall
  \/ DisconnectCancelled
  \/ DisconnectClosed

Spec == Init /\ [][Next]_vars

\* The session with its command scheduler, for the descriptors with and
\* without a command.
SchedInit ==
  InitWith(SchedDescriptors, [mode |-> "any", left |-> SchedBytes])

SchedNext ==
  \/ ConnectCall
  \/ ConnectPort
  \/ ConnectFail
  \/ ConnectOpen
  \/ WriteDone
  \/ WriteFail
  \/ Tick
  \/ SourceChunk
  \/ ScanStep
  \/ SourceFault
  \/ DisconnectCall
  \/ DisconnectCancelled
  \/ DisconnectClosed

SchedSpec == SchedInit /\ [][SchedNext]_vars

\* The lifecycle of a session: connect() and disconnect() are called again
\* and again, each when the call of its kind before it has settled, and
\* requestPort may resolve with a second port. No command, no transport fault.
LifeDescriptors ==
  { Descriptor(PlainFrame, PlainCheck, PlainData, NoCommand, NoPeriod) }

LifeInit ==
  InitWith(LifeDescriptors, [mode |-> "any", left |-> LifeBytes])

LifeNext ==
  \/ ConnectCall
  \/ ConnectAgain
  \/ ConnectPort
  \/ ConnectOtherPort
  \/ ConnectFail
  \/ ConnectOpen
  \/ SourceChunk
  \/ OrphanChunk
  \/ ScanStep
  \/ ReadNext
  \/ DisconnectCall
  \/ DisconnectAgain
  \/ DisconnectCancelled
  \/ DisconnectClosed

LifeSpec == LifeInit /\ [][LifeNext]_vars

\* The read loop fed by a source that, after at most MaxGarbage bytes of
\* garbage, supplies valid frames back to back for as long as no frame has
\* been delivered; the session connects and nothing disconnects it or
\* breaks the transport. Only onData calls are recorded.
LiveDescriptors ==
  { \* start byte 1, last byte = sum of the first two
    Descriptor(Frame(3, OneByte(Num(1)), NoMarker),
               Checksum(FByte(2), FSum(0, 1)), Temp, NoCommand, NoPeriod),
    \* no markers, last byte = sum of the first two
    Descriptor(Frame(3, NoMarker, NoMarker),
               Checksum(FByte(2), FSum(0, 1)), Temp, NoCommand, NoPeriod),
    \* start byte 1 and a checksum that leaves one frame, 1 2
    Descriptor(Frame(2, OneByte(Num(1)), NoMarker), DoubleCheck, Temp,
               NoCommand, NoPeriod) }

\* The frames a device with this descriptor sends: windows that pass the
\* markers and the checksum and whose fields extract.
ValidFrames(cfg) ==
  {f \in [1..cfg.frame.length -> Byte] :
     ScanOutcome(cfg, f).kind = "valid"}

LiveInit ==
  /\ InitWith(LiveDescriptors, [mode |-> "garbage", left |-> MaxGarbage])
  /\ onData

LiveGarbage ==
  /\ source.mode = "garbage"
  /\ source.left > 0
  /\ \E b \in Byte : ReadChunk(<<b>>)
  /\ source' = [source EXCEPT !.left = @ - 1]
  /\ UNCHANGED hist

LiveFrame ==
  /\ dataOut = <<>>
  /\ \E f \in ValidFrames(config) : ReadChunk(f)
  /\ source' = [source EXCEPT !.mode = "frames"]
  /\ UNCHANGED hist

LiveScanStep ==
  /\ scanning
  /\ LET o == ScanOutcome(config, buffer)
     IN  /\ ScanProg(o)
         /\ dataOut' = IF o.kind = "valid" /\ onData
                         THEN Append(dataOut, [pos |-> 0, parsed |-> o.parsed])
                         ELSE dataOut
  /\ UNCHANGED <<stream, consumed, requests, events, resolved, consoleErr,
                 onErrorCalls, writeLog>>

LiveNext ==
  \/ ConnectCall
  \/ ConnectPort
  \/ ConnectOpen
  \/ LiveGarbage
  \/ LiveFrame
  \/ LiveScanStep

LiveSpec == LiveInit /\ [][LiveNext]_vars /\ WF_vars(LiveNext)

\* ------------------------------------------------- descriptor documents
\* Names the entries of a document use; "X" is a base no entry defines.
ResNames == {"A", "B"}
MissingBase == "X"

\* An object whose keys all carry the position of the entry declaring them.
Obj(keys, i) == [k \in keys |-> i]

\* What the entry at position i declares: everything, only frame.length,
\* or only data.hum together with a zero send_cmd_period.
Shapes == {"full", "length", "hum"}

RawEntry(i, name, inherits_from, shape) ==
  CASE shape = "full" ->
         RawSensor(name, inherits_from, Command(<<HexChars[i + 1]>>), Period(i),
                   Obj({"baudRate"}, i), Obj({"length", "startByte"}, i),
                   Obj({"eval", "compare"}, i), Obj({"temp", "hum"}, i))
    [] shape = "length" ->
         RawSensor(name, inherits_from, NoCommand, NoPeriod,
                   Obj({}, i), Obj({"length"}, i), Obj({}, i), Obj({}, i))
    [] shape = "hum" ->
         RawSensor(name, inherits_from, NoCommand, Period(0),
                   Obj({}, i), Obj({}, i), Obj({}, i), Obj({"hum"}, i))

EntryChoices ==
  [name : ResNames \cup {""},
   inherits_from : ResNames \cup {"", MissingBase},
   shape : Shapes]

\* json.sensors of the fetched document: the raw entries that the choices c
\* describe, in document order.
RawDoc(c) ==
  [i \in DOMAIN c |-> RawEntry(i, c[i].name, c[i].inherits_from, c[i].shape)]

\* loadConfig after `rawSensors` is read from a document of up to MaxEntries
\* raw entries.
ResolveInit ==
  /\ SessionInit(LifeDescriptors, [mode |-> "any", left |-> 0])
  /\ onData = FALSE
  /\ \E n \in 0..MaxEntries : \E c \in [1..n -> EntryChoices] :
       load = [pc |-> "mapping", rawSensors |-> RawDoc(c), sensors |-> <<>>,
               warnings |-> <<>>, sensorName |-> "", result |-> <<>>,
               error |-> ""]

\* One callback of `rawSensors.map(resolveInheritance)`: map calls it with
\* the element and the element's index, which binds `stack` to the index.
LoadMap ==
  /\ load.pc = "mapping"
  /\ Len(load.sensors) < Len(load.rawSensors)
  /\ LET i == Len(load.sensors) + 1
         r == ResolveInheritance(NameMap(load.rawSensors), load.rawSensors[i],
                                 NumStack(i - 1))
     IN  load' = IF r.kind = "throws"
                   THEN [load EXCEPT !.pc = "threw", !.error = r.msg]
                   ELSE [load EXCEPT
                           !.sensors = Append(@, r),
                           !.warnings = @ \o (IF r.kind = "value" THEN r.warn
                                                                  ELSE <<>>)]
  /\ UNCHANGED <<config, onData, onError, port, portOpen, reader, writer,
                 buffer, commandInterval, readQueue, awaiting, scanning,
                 connPc, discPc, sinkLocked, pendingWrites, nextReq, ticks,
                 source, orphans, connects>>
  /\ UNCHANGED hist

\* `.filter(Boolean)`, the lookup of sensorName with `find`, and the return.
LoadReturn ==
  /\ load.pc = "mapping"
  /\ Len(load.sensors) = Len(load.rawSensors)
  /\ \E sensorName \in ResNames \cup {""} :
       LET NotNull(r) == r.kind # "null"
           kept == SelectSeq(load.sensors, NotNull)
           sensors == [k \in 1..Len(kept) |-> kept[k].val]
           hits == {k \in 1..Len(sensors) : sensors[k].name = sensorName}
           match == sensors[CHOOSE k \in hits : \A h \in hits : k <= h]
       IN  load' =
             IF sensorName = ""
               THEN [load EXCEPT !.pc = "returned", !.result = sensors]
             ELSE IF hits = {}
               THEN [load EXCEPT !.pc = "threw", !.sensorName = sensorName,
                                 !.error = "not found in configuration"]
             ELSE [load EXCEPT !.pc = "returned", !.sensorName = sensorName,
                               !.result = <<match>>]
  /\ UNCHANGED <<config, onData, onError, port, portOpen, reader, writer,
                 buffer, commandInterval, readQueue, awaiting, scanning,
                 connPc, discPc, sinkLocked, pendingWrites, nextReq, ticks,
                 source, orphans, connects>>
  /\ UNCHANGED hist

ResolveNext ==
  \/ LoadMap
  \/ LoadReturn

ResolveSpec == ResolveInit /\ [][ResolveNext]_vars

\* =========================================================================
\* The claims.  The marker and checksum rules below are stated from the
\* descriptor's meaning (a marker value is the byte it denotes), apart from
\* the operators of the model.
\* =========================================================================
FrameLen == config.frame.length

MarkerByte(v) == v.n

StartMarkerOK(win) ==
  LET m == config.frame.startByte
  IN  CASE m.form = "none" -> TRUE
        [] m.form = "byte" -> win[1] = MarkerByte(m.v[1])
        [] OTHER -> /\ Len(m.v) <= Len(win)
                    /\ \A k \in 1..Len(m.v) : win[k] = MarkerByte(m.v[k])

EndMarkerOK(win) ==
  LET m == config.frame.endByte
  IN  CASE m.form = "none" -> TRUE
        [] m.form = "byte" -> win[Len(win)] = MarkerByte(m.v[1])
        [] OTHER -> /\ Len(m.v) <= Len(win)
                    /\ \A k \in 1..Len(m.v) :
                         win[Len(win) - Len(m.v) + k] = MarkerByte(m.v[k])

MarkersOK(win) == StartMarkerOK(win) /\ EndMarkerOK(win)

ChecksumFaults(win) ==
  \/ ~EvalSafe(config.checksum.eval, win).ok
  \/ ~EvalSafe(config.checksum.compare, win).ok

ChecksumEqual(win) ==
  /\ ~ChecksumFaults(win)
  /\ EvalSafe(config.checksum.eval, win).val
       = EvalSafe(config.checksum.compare, win).val

FieldFaults(win) ==
  \E k \in 1..Len(config.data) :
    ~EvalSafe(FieldExpr(config.data[k].meta), win).ok

\* The window the next iteration of the inner loop looks at.
Window == Take(buffer, FrameLen)
\* The window of stream that starts after its first q bytes.
WindowAt(q) == SubSeq(stream, q + 1, q + FrameLen)
\* The loop task is alive after the step.
LoopGoesOn == scanning' \/ awaiting' = awaiting + 1

Passed(e) == e.kind \in {"valid", "exfault"}
Validated(e) == e.kind # "drop"
Step(e) == IF e.kind = "drop" THEN 1 ELSE FrameLen

\* C4: a window goes to handleFrame only if it passes the start and the end
\* marker check of the configured form; a window failing either is dropped by
\* exactly one leading byte and is not validated. Stated over the record of
\* the loop: every event's window is the stream at its position, a validated
\* window satisfies both markers, a dropped one fails one, each event moves
\* the position by one byte (drop) or frame.length bytes (validated), and the
\* buffer is the stream from the current position on.
C4_MarkersGateValidation ==
  /\ buffer = Drop(stream, consumed)
  /\ \A k \in 1..Len(events) :
       LET e == events[k]
       IN  /\ e.win = WindowAt(e.pos)
           /\ Validated(e) <=> MarkersOK(e.win)
           /\ e.pos + Step(e) = (IF k < Len(events) THEN events[k + 1].pos
                                                     ELSE consumed)

\* A descriptor with both markers has had a window dropped and a later one
\* validated.
C4_Witness ==
  /\ config.frame.startByte.form = "seq"
  /\ config.frame.endByte.form = "seq"
  /\ \E k \in 1..Len(events) : \E l \in 1..Len(events) :
       k < l /\ events[k].kind = "drop" /\ Validated(events[l])

\* C5: a checksum failure is not fatal. When the window at the head of the
\* buffer passes the markers and its checksum pair evaluates to two different
\* values, the step reports "Checksum failed", removes frame.length bytes,
\* calls neither onData nor any pending resolve, and the loop task goes on.
C5_ChecksumFailureNonFatal ==
  [][(scanning /\ MarkersOK(Window) /\ ~ChecksumFaults(Window)
        /\ ~ChecksumEqual(Window))
      => /\ consoleErr' = Append(consoleErr, "Checksum failed")
         /\ onError => onErrorCalls' = Append(onErrorCalls, "Checksum failed")
         /\ buffer' = Drop(buffer, FrameLen)
         /\ dataOut' = dataOut
         /\ resolved' = resolved
         /\ readQueue' = readQueue
         /\ LoopGoesOn]_vars

\* A frame was delivered after a checksum failure, with a request pending at
\* the failure.
C5_Witness ==
  \E k \in 1..Len(events) : \E l \in 1..Len(events) :
    /\ k < l
    /\ events[k].kind = "invalid"
    /\ events[l].kind = "valid"
    /\ events[l].req # 0
    /\ onData

\* C1 (as claimed): requests are served first in, first out. Whenever a
\* frame passes validation, the oldest request registered and not yet
\* resolved, if there is one, is resolved by that frame and no other request
\* is; a step that validates no frame resolves nothing.
Outstanding ==
  SelectSeq(requests,
            LAMBDA r : \A k \in 1..Len(resolved) : resolved[k].req # r)

C1_FifoByValidFrame ==
  [][IF events' # events /\ Passed(Last(events')) /\ Outstanding # <<>>
       THEN /\ Len(resolved') = Len(resolved) + 1
            /\ Take(resolved', Len(resolved)) = resolved
            /\ Last(resolved').req = Head(Outstanding)
            /\ Last(resolved').pos = Last(events').pos
       ELSE resolved' = resolved]_vars

\* C1 without the frames whose field extraction throws: holds of the code.
C1_FifoByDeliveredFrame ==
  [][IF events' # events /\ Last(events').kind = "valid" /\ Outstanding # <<>>
       THEN /\ Len(resolved') = Len(resolved) + 1
            /\ Take(resolved', Len(resolved)) = resolved
            /\ Last(resolved').req = Head(Outstanding)
            /\ Last(resolved').pos = Last(events').pos
       ELSE resolved' = resolved]_vars

\* C2 (as claimed): when the first valid frame of the stream starts after K
\* bytes and the loop has moved past byte K, each of the K bytes was dropped
\* singly and the frame was taken as a window and passed validation.
ValidFrameAt(q) ==
  /\ q + FrameLen <= Len(stream)
  /\ MarkersOK(WindowAt(q))
  /\ ChecksumEqual(WindowAt(q))

EventAt(q, kinds) ==
  \E k \in 1..Len(events) : events[k].pos = q /\ events[k].kind \in kinds

C2_GarbageDroppedBytewise ==
  \A K \in 0..Len(stream) :
    (/\ ValidFrameAt(K)
     /\ \A q \in 0..(K - 1) : ~ValidFrameAt(q)
     /\ consumed > K)
    => /\ \A q \in 0..(K - 1) : EventAt(q, {"drop"})
       /\ EventAt(K, {"valid", "exfault"})

\* C2 for garbage no byte of which starts a window that passes both marker
\* checks: holds of the code.
C2_UnmarkedGarbageDroppedBytewise ==
  \A K \in 0..Len(stream) :
    (/\ ValidFrameAt(K)
     /\ \A q \in 0..(K - 1) : ~MarkersOK(WindowAt(q))
     /\ consumed > K)
    => /\ \A q \in 0..(K - 1) : EventAt(q, {"drop"})
       /\ EventAt(K, {"valid", "exfault"})

\* C6 (as claimed): a formula fault does not end the read loop. When the
\* window at the head of the buffer passes the markers and a checksum formula
\* faults on it, the step reports a checksum failure and the loop task goes
\* on; when the checksum passes and a field formula faults, the step reports
\* an error and the loop task goes on.
C6_FormulaFaultNonFatal ==
  [][(scanning /\ MarkersOK(Window)
        /\ (ChecksumFaults(Window) \/ (ChecksumEqual(Window) /\ FieldFaults(Window))))
      => /\ vars' # vars
            => /\ Len(consoleErr') = Len(consoleErr) + 1
               /\ ChecksumFaults(Window) => Last(consoleErr') = "Checksum failed"
         /\ LoopGoesOn \/ vars' = vars]_vars

\* C7 (as claimed): with onData subscribed, the frames handed to onData are
\* the frames that passed validation, once each and in that order, and every
\* resolved request got the mapping onData got for the same frame.
PassedPositions ==
  LET p == SelectSeq(events, Passed) IN [k \in 1..Len(p) |-> p[k].pos]

C7_EveryValidFrameDelivered ==
  onData =>
    /\ [k \in 1..Len(dataOut) |-> dataOut[k].pos] = PassedPositions
    /\ \A k \in 1..Len(resolved) : \E l \in 1..Len(dataOut) :
         /\ dataOut[l].pos = resolved[k].pos
         /\ dataOut[l].parsed = resolved[k].parsed

\* C7 for the frames whose field extraction completes: holds of the code.
DeliveredPositions ==
  LET p == SelectSeq(events, LAMBDA e : e.kind = "valid")
  IN  [k \in 1..Len(p) |-> p[k].pos]

C7_EveryExtractedFrameDelivered ==
  onData =>
    /\ [k \in 1..Len(dataOut) |-> dataOut[k].pos] = DeliveredPositions
    /\ \A k \in 1..Len(resolved) : \E l \in 1..Len(dataOut) :
         /\ dataOut[l].pos = resolved[k].pos
         /\ dataOut[l].parsed = resolved[k].parsed

\* ------------------------------------------------- the scheduler's claims
\* The payload the descriptor's command denotes: "01 A3" is the bytes 1, 163.
HasCommand == ~CommandDisabled(config.command)
Payload == CommandBytes(config.command.str)
DisconnectCalled == discPc # "idle"
WritesAfterDisconnect == {k \in 1..Len(writeLog) : writeLog[k].after}

\* C8 (as claimed): with a command and a positive period, connecting writes
\* the payload once at once; every timer tick before disconnect() is called
\* writes the same payload once more (when it finds the sink free); once
\* disconnect() has been called on the connected session, no write starts;
\* and with the command absent or "none" in any letter case nothing is ever
\* written and no timer is armed.
ConnectedBeforeDisconnect == writeLog # <<>> /\ ~writeLog[1].after

C8_CommandSchedule ==
  [][/\ (connPc = "opening" /\ connPc' \in {"sending", "done"} /\ HasCommand)
          => writeLog' = <<[data |-> Payload, src |-> "init", after |-> DisconnectCalled]>>
     /\ (ticks' = ticks + 1 /\ ~DisconnectCalled /\ ~sinkLocked)
          => writeLog' = Append(writeLog, [data |-> Payload, src |-> "tick", after |-> FALSE])
     /\ (DisconnectCalled /\ ConnectedBeforeDisconnect) => writeLog' = writeLog
     /\ ~HasCommand => (writeLog' = <<>> /\ ~commandInterval')]_vars

\* C8, the part that holds of the code whatever the interleaving: writes
\* carry the payload, the first is connect's, and without a command nothing
\* is written and no timer is armed.
C8_PayloadAndSentinel ==
  /\ \A k \in 1..Len(writeLog) :
       /\ writeLog[k].data = Payload
       /\ writeLog[k].src = (IF k = 1 THEN "init" ELSE "tick")
  /\ ~HasCommand => (writeLog = <<>> /\ ~commandInterval)

\* C9: a write failure of the scheduler is reported, keeps the timer armed
\* and ends neither the read loop nor the session. A sendOnce that fails is
\* a write in flight that settles without releasing the lock, or a tick that
\* starts no write; the failure of connect's own sendOnce is followed by the
\* arming of the timer when the period is a positive number.
SendOnceFails ==
  \/ Len(pendingWrites') < Len(pendingWrites) /\ sinkLocked'
  \/ ticks' = ticks + 1 /\ writeLog' = writeLog

C9_WriteFailureNonFatal ==
  [][SendOnceFails
      => /\ consoleErr' = Append(consoleErr, "Error sending command")
         /\ onError => onErrorCalls' = Append(onErrorCalls, "Error sending command")
         /\ commandInterval => commandInterval'
         /\ (pendingWrites # <<>> /\ Head(pendingWrites) = "init"
               /\ config.send_cmd_period.t = "num" /\ config.send_cmd_period.n > 0)
              => commandInterval'
         /\ awaiting' = awaiting /\ scanning' = scanning
         /\ port' = port /\ portOpen' = portOpen /\ reader' = reader]_vars

\* Connect's write failed, a later tick attempted a transmission all the
\* same, and the read loop delivered a frame after both.
C9_Witness ==
  /\ Len(writeLog) = 1
  /\ ticks = 1
  /\ consoleErr = <<"Error sending command", "Error sending command">>
  /\ commandInterval
  /\ dataOut # <<>>
  /\ awaiting = 1

\* C10: at most one command write is in flight at any time; a tick that
\* fires while a write is in flight starts no second one.
C10_OneWriteInFlight == Len(pendingWrites) <= 1

\* The second tick fired while the first tick's write was in flight: it
\* started nothing.
C10_Witness ==
  /\ pendingWrites = <<"tick">>
  /\ ticks = 2
  /\ Len(writeLog) = 2
  /\ consoleErr = <<"Error sending command">>

\* ---------------------------------------------------------------- recovery
\* C3 (as claimed): after any finite garbage, a source that then keeps
\* supplying valid frames back to back eventually has a frame delivered.
C3_RecoveryGuaranteed == <>(dataOut # <<>>)

\* ----------------------------------------------------------- one read loop
\* The loop tasks started by startReadLoop() that have not ended.
ActiveLoops == awaiting + orphans + (IF scanning THEN 1 ELSE 0)

\* C11 (as claimed): whatever connect() and disconnect() calls are made on a
\* session, at most one read loop is active at a time.
C11_SingleReadLoop == ActiveLoops <= 1

\* ---------------------------------------------------------------- lifecycle
\* Closed: connect() had returned (the session was Running), and a
\* disconnect() has cancelled the reader and completed.
Closed == discPc = "done" /\ connPc = "done" /\ ~reader

\* C12 (as claimed): Closed is terminal; no step takes a Closed session back
\* to Connecting (connect() awaiting requestPort, open or its first write).
C12_ClosedIsTerminal == [][Closed => connPc' = connPc]_vars

\* C13 (as claimed): when disconnect() has completed, the timer is
\* cancelled, the request queue and the decode buffer are empty and the
\* transport is released.
C13_DisconnectDestroysSession ==
  Closed =>
    /\ ~commandInterval
    /\ readQueue = <<>>
    /\ buffer = <<>>
    /\ port = "null"

\* --------------------------------------------------------- loop termination
\* The loop task ends in this step while suspended at its pull.
LoopEndsAtPull == ~scanning /\ awaiting' < awaiting
\* The pull failed in this step (the read rejected).
PullFaults == source.mode = "any" /\ source'.mode = "faulted"
\* A loop was started and no loop is left.
LoopEnded == connPc = "done" /\ ActiveLoops = 0

\* C18: a loop that ends at its pull on a fault reports "Read loop error"
\* once (console.error, and onError when subscribed); one that ends there on
\* end-of-stream or on disconnect's cancel reports nothing; and once the
\* loop has ended no frame is delivered to onData or to a request.
C18_TerminationByCause ==
  [][/\ LoopEndsAtPull =>
          IF PullFaults
            THEN /\ consoleErr' = Append(consoleErr, "Read loop error")
                 /\ onErrorCalls' = IF onError
                                      THEN Append(onErrorCalls, "Read loop error")
                                      ELSE onErrorCalls
            ELSE consoleErr' = consoleErr /\ onErrorCalls' = onErrorCalls
     /\ LoopEnded => (dataOut' = dataOut /\ resolved' = resolved
                      /\ events' = events)]_vars

\* A subscribed session whose loop ended on a transport fault after it had
\* delivered a frame, the fault being the one error reported.
C18_Witness ==
  /\ source.mode = "faulted"
  /\ LoopEnded
  /\ dataOut # <<>>
  /\ onErrorCalls = <<"Read loop error">>

\* ------------------------------------------------------- timer and transport
\* C19 (as claimed): the periodic timer is armed only while a port is set,
\* and no timer is left armed once connect() has returned and a disconnect()
\* that cancelled its reader has completed.
C19_TimerOnlyWhileOpen ==
  /\ commandInterval => port # "null"
  /\ Closed => ~commandInterval

\* -------------------------------------------------------------- writer lock
\* C20 (as claimed): whenever no write is in flight the sink is unlocked, so
\* every sendOnce that took the writer's lock has released it.
C20_LockReleased == pendingWrites = <<>> => ~sinkLocked

\* ---------------------------------------------------- claims on loadConfig
\* loadConfig has returned or thrown.
LoadDone == load.pc \in {"returned", "threw"}

\* The document is the cycle: entry 1 is A inheriting from B, entry 2 is B
\* inheriting from A.
IsCycle ==
  /\ Len(load.rawSensors) = 2
  /\ load.rawSensors[1].name = "A" /\ load.rawSensors[1].inherits_from = "B"
  /\ load.rawSensors[2].name = "B" /\ load.rawSensors[2].inherits_from = "A"

\* Descriptor d carries exactly what raw entry e declares.
OwnFieldsOnly(d, e) ==
  /\ d.name = e.name
  /\ d.command = e.command /\ d.send_cmd_period = e.send_cmd_period
  /\ d.port = e.port /\ d.frame = e.frame
  /\ d.checksum = e.checksum /\ d.data = e.data

\* C14: for the document [A inherits_from B, B inherits_from A] loadConfig
\* terminates without error, prints a diagnostic, and returns A and B each
\* with only its own fields.
C14_CycleFallsBack ==
  (load.pc # "none" /\ LoadDone /\ IsCycle) =>
    /\ load.pc = "returned"
    /\ load.warnings # <<>>
    /\ load.sensorName = "" =>
         /\ Len(load.result) = 2
         /\ \A k \in 1..2 : OwnFieldsOnly(load.result[k], load.rawSensors[k])

\* C15: for every list of raw entries, a missing base or a cycle included,
\* loadConfig fails only when the requested name is not in the document, and
\* no descriptor it returns keeps an inherits_from reference.
C15_NoInheritanceLeft ==
  load.pc # "none" =>
    /\ load.pc = "threw" => load.error = "not found in configuration"
    /\ load.pc = "returned" =>
         \A k \in 1..Len(load.result) : load.result[k].inherits_from = ""

\* The document is a parent A without inherits_from followed by a child B
\* inheriting from A.
IsParentChild ==
  /\ Len(load.rawSensors) = 2
  /\ load.rawSensors[1].name = "A" /\ load.rawSensors[1].inherits_from = ""
  /\ load.rawSensors[2].name = "B" /\ load.rawSensors[2].inherits_from = "A"

\* Object m has the keys of both: the child's value where the child
\* declares the key, the parent's value elsewhere.
KeyWise(m, parent, child) ==
  /\ DOMAIN m = DOMAIN parent \cup DOMAIN child
  /\ \A k \in DOMAIN child : m[k] = child[k]
  /\ \A k \in DOMAIN parent \ DOMAIN child : m[k] = parent[k]

\* C16: the child of a parent is returned as the shallow key-wise merge of
\* the two: every key of port, frame, checksum and data is the child's where
\* the child declares it and the parent's elsewhere; command and
\* send_cmd_period are the child's when present, else the parent's.
C16_ShallowKeyWiseMerge ==
  (load.pc # "none" /\ LoadDone /\ IsParentChild) =>
    /\ load.pc = "returned"
    /\ load.sensorName = "" =>
         /\ Len(load.result) = 2
         /\ LET parent == load.rawSensors[1]
                child == load.rawSensors[2]
                m == load.result[2]
            IN  /\ m.name = "B"
                /\ KeyWise(m.port, parent.port, child.port)
                /\ KeyWise(m.frame, parent.frame, child.frame)
                /\ KeyWise(m.checksum, parent.checksum, child.checksum)
                /\ KeyWise(m.data, parent.data, child.data)
                /\ m.command = IF child.command.present THEN child.command
                                                        ELSE parent.command
                /\ m.send_cmd_period =
                     IF child.send_cmd_period.t = "num"
                       THEN child.send_cmd_period
                       ELSE parent.send_cmd_period

\* C17: loadConfig(url, sensorName) returns the descriptor resolved from the
\* last raw entry of that name.
C17_LaterShadows ==
  (load.pc = "returned" /\ load.sensorName # "") =>
    LET named == {i \in 1..Len(load.rawSensors) :
                    load.rawSensors[i].name = load.sensorName}
        last == CHOOSE i \in named : \A j \in named : j <= i
    IN  load.result = <<load.sensors[last].val>>

====
